---- MODULE Spec2Model ----
(***************************************************************************)
(* Model of the strategy layer of stock-analysis-system:                   *)
(*   strategy/vnpy_strategies/base_template.py      BaseStrategy            *)
(*   strategy/vnpy_strategies/trend_following/dual_ma.py  DualMAStrategy    *)
(*                                                                         *)
(* Prices are integers.  The percentages of risk_management are compared   *)
(* in exact arithmetic, cross-multiplied by the (positive) divisor:        *)
(*   (e - c) / e * 100 >= s   <=>   (e - c) * 100 >= s * e     for e > 0.   *)
(* A division by 0.0 raises ZeroDivisionError in Python; the model keeps   *)
(* that outcome apart (raised).                                            *)
(*                                                                         *)
(* The host (vn.py CtaEngine) is the environment: it delivers ticks, bars  *)
(* and fills, adds a fill's volume to pos before it calls on_trade, and    *)
(* owns the ArrayManager `am` whose inited flag and sma values the         *)
(* trading logic reads.                                                    *)
(***************************************************************************)
EXTENDS Integers, Sequences, FiniteSets, TLC

VARIABLES
    pos,            \* CtaTemplate.pos, signed net position
    current_price,  \* base_template.py:26
    entry_price,    \* base_template.py:27
    highest_price,  \* base_template.py:28
    lowest_price,   \* base_template.py:29
    fast_ma,        \* trend_following/dual_ma.py:35
    slow_ma,        \* trend_following/dual_ma.py:36
    ma_diff,        \* trend_following/dual_ma.py:37
    last_ma_diff,   \* trend_following/dual_ma.py:38
    orders,         \* orders sent by the last on_bar call, in the order sent
    raised,         \* exception that ended the last callback, "none" if it returned
    last,           \* the last callback: "init", "tick", "bar", "open", "close"
    strategy,       \* the subclass of BaseStrategy that runs: "DualMA", "TripleMA"
    short_ma,       \* trend_following/dual_ma.py:127
    medium_ma,      \* trend_following/dual_ma.py:128
    long_ma,        \* trend_following/dual_ma.py:129
    pending,        \* orders the host holds unfilled (tracked under SpecOrders)
    seen,           \* what the last on_bar call was given (recorded under SpecLogic)
    fn,             \* the function called under SpecFn, "none" before the call
    args,           \* its arguments
    ret             \* what it returned

stratVars == <<pos, current_price, entry_price, highest_price, lowest_price,
               fast_ma, slow_ma, ma_diff, last_ma_diff, orders, raised, last,
               strategy, short_ma, medium_ma, long_ma>>

fnVars == <<fn, args, ret>>

vars == <<stratVars, pending, seen, fnVars>>

---------------------------------------------------------------------------
(* Bounds of the model *)

\* largest absolute position the host lets the strategy hold
MaxPos == 2

\* prices of ticks, bars and fills
Prices == {94, 100, 107, 120}

\* values the ArrayManager's sma can return
MAValues == {10, 11}

---------------------------------------------------------------------------
(* Program constants *)

risk_percent == 2
max_position == 100
stop_loss_pct == 5
take_profit_pct == 10
volume_threshold == 100000
BuySize == 100
\* float('inf'), above every price
Inf == 1000000

Volumes == {volume_threshold - 1, volume_threshold}

Max(a, b) == IF a >= b THEN a ELSE b
Min(a, b) == IF a <= b THEN a ELSE b
Abs(x) == IF x < 0 THEN -x ELSE x

\* one order sent through CtaTemplate.buy/sell/short/cover; by is the method
\* that sent it, log the message written just before it
Order(type, price, volume, by, log) ==
    [type |-> type, price |-> price, volume |-> volume, by |-> by, log |-> log]

NoOrders == [orders |-> <<>>, raised |-> "none"]
Raise(e) == [orders |-> <<>>, raised |-> e]

---------------------------------------------------------------------------
(* BaseStrategy.risk_management *)

\* mutant: the loss taken with the wrong sign
LongStopLoss_Flipped(e, c) == (c - e) * 100 >= stop_loss_pct * e

\* loss_pct >= self.stop_loss_pct, long position, e > 0
LongStopLoss(e, c) == (e - c) * 100 >= stop_loss_pct * e

\* drawdown_pct >= self.take_profit_pct, h > 0
LongTrailing(h, c) == (h - c) * 100 >= take_profit_pct * h

\* loss_pct >= self.stop_loss_pct, short position, e > 0
ShortStopLoss(e, c) == (c - e) * 100 >= stop_loss_pct * e

\* mutant: the trailing take-profit checked before the stop-loss
RiskLong_TrailingFirst(p, e, h, c) ==
    IF e = 0 \/ h = 0 THEN Raise("ZeroDivisionError")
    ELSE IF LongTrailing(h, c)
        THEN [orders |-> <<Order("sell", c, Abs(p), "risk", "trailing_take_profit")>>,
              raised |-> "none"]
    ELSE IF LongStopLoss(e, c)
        THEN [orders |-> <<Order("sell", c, Abs(p), "risk", "stop_loss")>>,
              raised |-> "none"]
    ELSE NoOrders

RiskLong(p, e, h, c) ==
    IF e = 0 THEN Raise("ZeroDivisionError")
    ELSE IF LongStopLoss(e, c)
        THEN [orders |-> <<Order("sell", c, Abs(p), "risk", "stop_loss")>>,
              raised |-> "none"]
    ELSE IF h = 0 THEN Raise("ZeroDivisionError")
    ELSE IF LongTrailing(h, c)
        THEN [orders |-> <<Order("sell", c, Abs(p), "risk", "trailing_take_profit")>>,
              raised |-> "none"]
    ELSE NoOrders

\* mutant: the short branch copied from the long one, sell left in place
RiskShort_Sell(p, e, c) ==
    IF e = 0 THEN Raise("ZeroDivisionError")
    ELSE IF ShortStopLoss(e, c)
        THEN [orders |-> <<Order("sell", c, Abs(p), "risk", "stop_loss")>>,
              raised |-> "none"]
    ELSE NoOrders

RiskShort(p, e, c) ==
    IF e = 0 THEN Raise("ZeroDivisionError")
    ELSE IF ShortStopLoss(e, c)
        THEN [orders |-> <<Order("cover", c, Abs(p), "risk", "stop_loss")>>,
              raised |-> "none"]
    ELSE NoOrders

\* mutant: the sign test of the position inverted
RiskManagement_SidesSwapped(p, e, h, c) ==
    IF p = 0 THEN NoOrders
    ELSE IF p < 0 THEN RiskLong(p, e, h, c)
    ELSE RiskShort(p, e, c)

\* p = self.pos, e = self.entry_price, h = self.highest_price, c = bar.close_price
RiskManagement(p, e, h, c) ==
    IF p = 0 THEN NoOrders
    ELSE IF p > 0 THEN RiskLong(p, e, h, c)
    ELSE RiskShort(p, e, c)

---------------------------------------------------------------------------
(* DualMAStrategy.trading_logic (trend_following) *)

\* the fields trading_logic leaves alone when it returns early
KeepMA(fm, sm, md, lmd) ==
    [fast_ma |-> fm, slow_ma |-> sm, ma_diff |-> md, last_ma_diff |-> lmd,
     orders |-> <<>>]

CrossOrders(p, c, md, lmd) ==
    LET cross_over == md > 0 /\ lmd <= 0
        cross_below == md < 0 /\ lmd >= 0
    IN  IF cross_over
        THEN IF p = 0
             THEN <<Order("buy", c, BuySize, "logic", "golden_cross")>>
             ELSE IF p < 0
             THEN <<Order("cover", c, Abs(p), "logic", "none"),
                    Order("buy", c, BuySize, "logic", "none")>>
             ELSE <<>>
        ELSE IF cross_below /\ p > 0
        THEN <<Order("sell", c, Abs(p), "logic", "death_cross")>>
        ELSE <<>>

\* bar = [high, low, close, volume]; am = [inited, fast, slow] is what the
\* ArrayManager answers on this bar
TradingLogic(p, bar, am, fm, sm, md, lmd) ==
    IF bar.volume < volume_threshold THEN KeepMA(fm, sm, md, lmd)
    ELSE IF ~am.inited THEN KeepMA(fm, sm, md, lmd)
    ELSE [fast_ma |-> am.fast, slow_ma |-> am.slow,
          ma_diff |-> am.fast - am.slow, last_ma_diff |-> md,
          orders |-> CrossOrders(p, bar.close, am.fast - am.slow, md)]

---------------------------------------------------------------------------
(* TripleMAStrategy.trading_logic (trend_following) *)

KeepTriple(s, m, l) ==
    [short_ma |-> s, medium_ma |-> m, long_ma |-> l, orders |-> <<>>]

TrendOrders(p, c, s, m, l) ==
    LET bull_trend == s > m /\ m > l
        bear_trend == s < m /\ m < l
    IN  IF bull_trend /\ p <= 0
        THEN (IF p < 0 THEN <<Order("cover", c, Abs(p), "logic", "none")>> ELSE <<>>)
             \o <<Order("buy", c, BuySize, "logic", "bull_trend")>>
        ELSE IF bear_trend /\ p >= 0
        THEN (IF p > 0 THEN <<Order("sell", c, Abs(p), "logic", "bear_trend")>> ELSE <<>>)
        ELSE <<>>

\* am = [inited, short, medium, long]
TripleLogic(p, bar, am, s, m, l) ==
    IF ~am.inited THEN KeepTriple(s, m, l)
    ELSE [short_ma |-> am.short, medium_ma |-> am.medium, long_ma |-> am.long,
          orders |-> TrendOrders(p, bar.close, am.short, am.medium, am.long)]

---------------------------------------------------------------------------
(* Python floats (IEEE 754 binary64) as far as calculate_position uses them:
   a nonzero float is sign * m * 2^e with m a 53-bit mantissa, kept as a
   sequence of bits, most significant first; zero has the empty mantissa.
   Division rounds to nearest, ties to even. *)

MantBits == 53

RECURSIVE Bits(_)
\* binary digits of the integer n > 0
Bits(n) == IF n = 0 THEN <<>> ELSE Bits(n \div 2) \o <<n % 2>>

Zeros(k) == [i \in 1..k |-> 0]

RECURSIVE ToInt(_)
ToInt(bits) ==
    IF bits = <<>> THEN 0
    ELSE 2 * ToInt(SubSeq(bits, 1, Len(bits) - 1)) + bits[Len(bits)]

DblZero == [sign |-> 1, m |-> <<>>, e |-> 0]

\* float(n) for an integer n with |n| < 2^53: exact
FromInt(n) ==
    IF n = 0 THEN DblZero
    ELSE LET b == Bits(Abs(n))
         IN  [sign |-> IF n < 0 THEN -1 ELSE 1,
              m |-> b \o Zeros(MantBits - Len(b)),
              e |-> Len(b) - MantBits]

\* a >= b for the bit sequences a, b of one length, read from position i on
GEFrom(a, b, i) ==
    LET D == {j \in i..Len(a) : a[j] # b[j]}
    IN  D = {} \/ a[CHOOSE j \in D : \A k \in D : j <= k] > b[CHOOSE j \in D : \A k \in D : j <= k]

\* a - b for bit sequences of one length, a >= b: position i borrows when
\* what follows it in a is less than what follows it in b
SubBits(a, b) ==
    [i \in 1..Len(a) |->
        (a[i] - b[i] - (IF GEFrom(a, b, i + 1) THEN 0 ELSE 1) + 2) % 2]

\* a + 1 for a bit sequence that is not all ones: position i is carried
\* into when every later position holds 1
IncBits(a) ==
    [i \in 1..Len(a) |->
        IF \A j \in (i + 1)..Len(a) : a[j] = 1 THEN 1 - a[i] ELSE a[i]]

RECURSIVE QuotBits(_, _, _)
\* the next k quotient bits of r / d (r < 2d, one length), followed by one
\* bit telling whether a remainder is left
QuotBits(r, d, k) ==
    IF k = 0 THEN <<IF r = Zeros(Len(r)) THEN 0 ELSE 1>>
    ELSE LET ge == GEFrom(r, d, 1)
             r1 == IF ge THEN SubBits(r, d) ELSE r
         IN  <<IF ge THEN 1 ELSE 0>> \o QuotBits(Tail(r1) \o <<0>>, d, k - 1)

\* x / y for nonzero floats
DblDivNZ(x, y) ==
    LET q == QuotBits(<<0, 0>> \o x.m, <<0, 0>> \o y.m, MantBits + 2)
        \* q[1] has weight 2^0; the quotient of two mantissas lies in (1/2, 2)
        lead == IF q[1] = 1 THEN 1 ELSE 2
        mant == SubSeq(q, lead, lead + MantBits - 1)
        round == q[lead + MantBits]
        sticky == \E i \in (lead + MantBits + 1)..Len(q) : q[i] = 1
        up == round = 1 /\ (sticky \/ mant[MantBits] = 1)
        carry == up /\ mant = [i \in 1..MantBits |-> 1]
        m1 == IF ~up THEN mant
              ELSE IF carry THEN <<1>> \o Zeros(MantBits - 1)
              ELSE IncBits(mant)
    IN  [sign |-> x.sign * y.sign,
         m |-> m1,
         e |-> x.e - y.e - (MantBits - 1) - (lead - 1) + (IF carry THEN 1 ELSE 0)]

\* int(x): truncation towards zero (|x| < 2^31 here)
IntTrunc(x) ==
    IF x.m = <<>> \/ MantBits + x.e <= 0 THEN 0
    ELSE x.sign * ToInt(SubSeq(x.m, 1, MantBits + x.e))

---------------------------------------------------------------------------
(* BaseStrategy.calculate_position *)

\* rp = self.risk_percent, slp = self.stop_loss_pct, mp = self.max_position;
\* capital * rp and price * slp are integers below 2^53, exact as floats
CalculatePosition(capital, price, rp, slp, mp) ==
    LET risk_amount == IF capital * rp = 0 THEN DblZero
                       ELSE DblDivNZ(FromInt(capital * rp), FromInt(100))
        stop_loss_amount == IF price * slp = 0 THEN DblZero
                            ELSE DblDivNZ(FromInt(price * slp), FromInt(100))
    IN  IF stop_loss_amount.m = <<>>
        THEN [raised |-> "ZeroDivisionError", value |-> 0]
        ELSE IF risk_amount.m = <<>>
        THEN [raised |-> "none", value |-> Min(0, mp)]
        ELSE [raised |-> "none",
              value |-> Min(IntTrunc(DblDivNZ(risk_amount, stop_loss_amount)), mp)]

---------------------------------------------------------------------------
(* Inputs *)

Bars == {b \in [high : Prices, low : Prices, close : Prices, volume : Volumes] :
            b.low <= b.close /\ b.close <= b.high}

Ticks == {t \in [high_price : Prices, low_price : Prices, last_price : Prices] :
            t.low_price <= t.last_price /\ t.last_price <= t.high_price}

\* before am.inited the sma values are not read: one such answer is enough
AMs == [inited : {TRUE}, fast : MAValues, slow : MAValues]
       \cup {[inited |-> FALSE, fast |-> 0, slow |-> 0]}

Trades == [direction : {"LONG", "SHORT"}, offset : {"OPEN", "CLOSE"},
           price : Prices, volume : 1..MaxPos]

---------------------------------------------------------------------------
(* State machine *)

\* what `seen` holds before the first on_bar call
NoBar == [datetime |-> 0, volume |-> 0,
          am |-> [inited |-> FALSE, fast |-> 0, slow |-> 0]]

Init ==
    /\ pos = 0
    /\ current_price = 0
    /\ entry_price = 0
    /\ highest_price = 0
    /\ lowest_price = Inf
    /\ fast_ma = 0
    /\ slow_ma = 0
    /\ ma_diff = 0
    /\ last_ma_diff = 0
    /\ orders = <<>>
    /\ raised = "none"
    /\ last = "init"
    /\ strategy = "DualMA"
    /\ short_ma = 0
    /\ medium_ma = 0
    /\ long_ma = 0
    /\ pending = <<>>
    /\ seen = NoBar
    /\ fn = "none"
    /\ args = <<>>
    /\ ret = <<>>

\* BaseStrategy.on_tick
OnTickStep(tick) ==
    /\ current_price' = tick.last_price
    /\ highest_price' = IF pos > 0 THEN Max(highest_price, tick.high_price)
                        ELSE highest_price
    /\ lowest_price' = IF pos < 0 THEN Min(lowest_price, tick.low_price)
                       ELSE lowest_price
    /\ orders' = <<>>
    /\ raised' = "none"
    /\ last' = "tick"
    /\ UNCHANGED <<pos, entry_price, fast_ma, slow_ma, ma_diff, last_ma_diff,
                   strategy, short_ma, medium_ma, long_ma>>

OnTick(tick) ==
    /\ OnTickStep(tick)
    /\ UNCHANGED <<pending, seen, fnVars>>

\* BaseStrategy.on_bar: extremes, then risk_management, then trading_logic;
\* an exception of risk_management leaves on_bar before trading_logic;
\* self.trading_logic is the running subclass's method
OnBarStep(bar, am) ==
    LET h  == IF pos > 0 THEN Max(highest_price, bar.high) ELSE highest_price
        l  == IF pos < 0 THEN Min(lowest_price, bar.low) ELSE lowest_price
        rm == RiskManagement(pos, entry_price, h, bar.close)
        dual == rm.raised = "none" /\ strategy = "DualMA"
        triple == rm.raised = "none" /\ strategy = "TripleMA"
        tl == IF dual
              THEN TradingLogic(pos, bar, am, fast_ma, slow_ma, ma_diff, last_ma_diff)
              ELSE KeepMA(fast_ma, slow_ma, ma_diff, last_ma_diff)
        t3 == IF triple
              THEN TripleLogic(pos, bar, am, short_ma, medium_ma, long_ma)
              ELSE KeepTriple(short_ma, medium_ma, long_ma)
    IN  /\ current_price' = bar.close
        /\ highest_price' = h
        /\ lowest_price' = l
        /\ fast_ma' = tl.fast_ma
        /\ slow_ma' = tl.slow_ma
        /\ ma_diff' = tl.ma_diff
        /\ last_ma_diff' = tl.last_ma_diff
        /\ short_ma' = t3.short_ma
        /\ medium_ma' = t3.medium_ma
        /\ long_ma' = t3.long_ma
        /\ orders' = rm.orders \o tl.orders \o t3.orders
        /\ raised' = rm.raised
        /\ last' = "bar"
        /\ UNCHANGED <<pos, entry_price, strategy>>

OnBar(bar, am) ==
    /\ OnBarStep(bar, am)
    /\ UNCHANGED <<pending, seen, fnVars>>

\* the host's position bookkeeping for a fill (CtaEngine adds the volume of a
\* LONG fill and subtracts that of a SHORT fill before it calls on_trade)
FilledPos(p, trade) ==
    IF trade.direction = "LONG" THEN p + trade.volume ELSE p - trade.volume

\* fills the host can report: an opening fill adds to the side held (or opens
\* one from flat), a closing fill takes at most the size held
CanFill(p, trade) ==
    IF trade.offset = "OPEN"
    THEN /\ Abs(FilledPos(p, trade)) <= MaxPos
         /\ (trade.direction = "LONG" => p >= 0)
         /\ (trade.direction = "SHORT" => p <= 0)
    ELSE /\ (trade.direction = "SHORT" => p > 0 /\ trade.volume <= p)
         /\ (trade.direction = "LONG" => p < 0 /\ trade.volume <= -p)

\* BaseStrategy.on_trade, after the host's bookkeeping
OnTradeStep(trade) ==
    /\ pos' = FilledPos(pos, trade)
    /\ IF trade.offset = "OPEN"
       THEN /\ entry_price' = trade.price
            /\ highest_price' = trade.price
            /\ lowest_price' = trade.price
            /\ last' = "open"
       ELSE /\ entry_price' = 0
            /\ UNCHANGED <<highest_price, lowest_price>>
            /\ last' = "close"
    /\ orders' = <<>>
    /\ raised' = "none"
    /\ UNCHANGED <<current_price, fast_ma, slow_ma, ma_diff, last_ma_diff,
                   strategy, short_ma, medium_ma, long_ma>>

OnTrade(trade) ==
    /\ CanFill(pos, trade)
    /\ OnTradeStep(trade)
    /\ UNCHANGED <<pending, seen, fnVars>>

Next ==
    \/ \E tick \in Ticks : OnTick(tick)
    \/ \E bar \in Bars, am \in AMs : OnBar(bar, am)
    \/ \E trade \in Trades : OnTrade(trade)

Spec == Init /\ [][Next]_vars

---------------------------------------------------------------------------
(* The same strategy with the bars' timestamps: `seen` keeps the timestamp,
   the volume and the ArrayManager's answer of the last bar handed to on_bar.
   A bar has one price here (high = low = close). *)

\* timestamps of bars
MaxTime == 2

\* a close below the stop-loss of an entry at 100, and one at it
LogicPrices == {94, 100}

LogicBars ==
    {[datetime |-> d, high |-> c, low |-> c, close |-> c, volume |-> v] :
        d \in 1..MaxTime, c \in LogicPrices, v \in Volumes}

LogicBar(bar, am) ==
    /\ OnBarStep(bar, am)
    /\ seen' = [datetime |-> bar.datetime, volume |-> bar.volume, am |-> am]
    /\ UNCHANGED <<pending, fnVars>>

NextLogic ==
    \/ \E bar \in LogicBars, am \in AMs : LogicBar(bar, am)
    \/ \E trade \in Trades : OnTrade(trade)

SpecLogic == Init /\ [][NextLogic]_vars

---------------------------------------------------------------------------
(* The strategy with the host's order book: every order on_bar sends stays
   with the host (`pending`) until the host fills it, one or more callbacks
   later, in full and at the order's price.  The only fills are those of the
   strategy's own orders.  Either subclass runs. *)

\* orders the host holds at a time
MaxPending == 2
\* largest absolute position, in entry sizes
MaxLots == 2

\* the answers of the ArrayManager: average windows aligned upwards,
\* downwards, level, and not yet inited (fast = short, slow = long)
OrderAMs ==
    {[inited |-> TRUE, fast |-> 11, slow |-> 9, short |-> 11, medium |-> 10, long |-> 9],
     [inited |-> TRUE, fast |-> 9, slow |-> 11, short |-> 9, medium |-> 10, long |-> 11],
     [inited |-> TRUE, fast |-> 10, slow |-> 10, short |-> 10, medium |-> 10, long |-> 10],
     [inited |-> FALSE, fast |-> 0, slow |-> 0, short |-> 0, medium |-> 0, long |-> 0]}

OrderBars ==
    {[high |-> c, low |-> c, close |-> c, volume |-> v] :
        c \in LogicPrices, v \in Volumes}

InitOrders ==
    /\ pos = 0
    /\ current_price = 0
    /\ entry_price = 0
    /\ highest_price = 0
    /\ lowest_price = Inf
    /\ fast_ma = 0 /\ slow_ma = 0 /\ ma_diff = 0 /\ last_ma_diff = 0
    /\ orders = <<>> /\ raised = "none" /\ last = "init"
    /\ strategy \in {"DualMA", "TripleMA"}
    /\ short_ma = 0 /\ medium_ma = 0 /\ long_ma = 0
    /\ pending = <<>>
    /\ seen = NoBar
    /\ fn = "none" /\ args = <<>> /\ ret = <<>>

\* on_bar; the host takes the orders it sent
OrderBar(bar, am) ==
    /\ OnBarStep(bar, am)
    /\ Len(pending) + Len(orders') <= MaxPending
    /\ pending' = pending \o orders'
    /\ UNCHANGED <<seen, fnVars>>

\* the fill of an order: buy is LONG/OPEN, sell SHORT/CLOSE, short
\* SHORT/OPEN, cover LONG/CLOSE
TradeOf(o) ==
    [direction |-> IF o.type \in {"buy", "cover"} THEN "LONG" ELSE "SHORT",
     offset |-> IF o.type \in {"buy", "short"} THEN "OPEN" ELSE "CLOSE",
     price |-> o.price,
     volume |-> o.volume]

\* the host fills the i-th order it holds and calls on_trade
OrderFill(i) ==
    /\ i \in 1..Len(pending)
    /\ Abs(FilledPos(pos, TradeOf(pending[i]))) <= MaxLots * BuySize
    /\ OnTradeStep(TradeOf(pending[i]))
    /\ pending' = SubSeq(pending, 1, i - 1) \o SubSeq(pending, i + 1, Len(pending))
    /\ UNCHANGED <<seen, fnVars>>

NextOrders ==
    \/ \E bar \in OrderBars, am \in OrderAMs : OrderBar(bar, am)
    \/ \E i \in 1..MaxPending : OrderFill(i)

SpecOrders == InitOrders /\ [][NextOrders]_vars

---------------------------------------------------------------------------
(* The CTA DualMAStrategy of vnpy_strategies/dual_ma.py, a CtaTemplate of its
   own: it has fast_ma, slow_ma, ma_diff and the host's pos, and none of the
   fields of BaseStrategy, which stay as Init left them.  Its orders stay
   with the host until the host fills them. *)

fixed_size == 100

\* the trading logic of on_bar: p = self.pos, c = bar.close_price,
\* md = self.ma_diff
CtaLogic(p, c, md) ==
    IF md > 0 /\ p = 0
    THEN <<Order("buy", c, fixed_size, "logic", "golden_cross")>>
    ELSE IF md < 0 /\ p > 0
    THEN <<Order("sell", c, Abs(p), "logic", "death_cross")>>
    ELSE <<>>

InitCta ==
    /\ pos = 0
    /\ current_price = 0
    /\ entry_price = 0
    /\ highest_price = 0
    /\ lowest_price = Inf
    /\ fast_ma = 0 /\ slow_ma = 0 /\ ma_diff = 0 /\ last_ma_diff = 0
    /\ orders = <<>> /\ raised = "none" /\ last = "init"
    /\ strategy = "CtaDualMA"
    /\ short_ma = 0 /\ medium_ma = 0 /\ long_ma = 0
    /\ pending = <<>>
    /\ seen = NoBar
    /\ fn = "none" /\ args = <<>> /\ ret = <<>>

\* DualMAStrategy.on_bar (CTA); am is what self.am answers after update_bar
CtaOnBar(bar, am) ==
    /\ IF ~am.inited
       THEN /\ UNCHANGED <<fast_ma, slow_ma, ma_diff>>
            /\ orders' = <<>>
       ELSE /\ fast_ma' = am.fast
            /\ slow_ma' = am.slow
            /\ ma_diff' = am.fast - am.slow
            /\ orders' = CtaLogic(pos, bar.close, am.fast - am.slow)
    /\ raised' = "none"
    /\ last' = "bar"
    /\ Len(pending) + Len(orders') <= MaxPending
    /\ pending' = pending \o orders'
    /\ UNCHANGED <<pos, current_price, entry_price, highest_price, lowest_price,
                   last_ma_diff, strategy, short_ma, medium_ma, long_ma,
                   seen, fnVars>>

\* the host fills the i-th order it holds; DualMAStrategy.on_trade (CTA)
\* writes a log line and changes nothing
CtaFill(i) ==
    /\ i \in 1..Len(pending)
    /\ Abs(FilledPos(pos, TradeOf(pending[i]))) <= MaxLots * fixed_size
    /\ pos' = FilledPos(pos, TradeOf(pending[i]))
    /\ pending' = SubSeq(pending, 1, i - 1) \o SubSeq(pending, i + 1, Len(pending))
    /\ orders' = <<>>
    /\ raised' = "none"
    /\ last' = IF TradeOf(pending[i]).offset = "OPEN" THEN "open" ELSE "close"
    /\ UNCHANGED <<current_price, entry_price, highest_price, lowest_price,
                   fast_ma, slow_ma, ma_diff, last_ma_diff, strategy,
                   short_ma, medium_ma, long_ma, seen, fnVars>>

NextCta ==
    \/ \E bar \in OrderBars, am \in AMs : CtaOnBar(bar, am)
    \/ \E i \in 1..MaxPending : CtaFill(i)

SpecCta == InitCta /\ [][NextCta]_vars

---------------------------------------------------------------------------
(* Calls of single functions: the arguments are drawn from bounded sets, the
   action applies the function.  calculate_position is a method: it is called
   on a strategy that is flat or holds a position. *)

Capitals == {0, 15, 1000, 10000, 100000}
CallPrices == {-100, 0, 1, 94, 100, 120}
StopLossPcts == {-5, 0, stop_loss_pct}

\* the fields of a strategy that never traded, and of one that bought at 100
\* and saw a bar with high 120 and close 107
HeldStates ==
    {[pos |-> 0, current_price |-> 0, entry_price |-> 0, highest_price |-> 0,
      lowest_price |-> Inf],
     [pos |-> 1, current_price |-> 107, entry_price |-> 100, highest_price |-> 120,
      lowest_price |-> 100]}

InitFn ==
    /\ \E st \in HeldStates :
          /\ pos = st.pos
          /\ current_price = st.current_price
          /\ entry_price = st.entry_price
          /\ highest_price = st.highest_price
          /\ lowest_price = st.lowest_price
    /\ fast_ma = 0 /\ slow_ma = 0 /\ ma_diff = 0 /\ last_ma_diff = 0
    /\ orders = <<>> /\ raised = "none" /\ last = "init"
    /\ strategy = "DualMA"
    /\ short_ma = 0 /\ medium_ma = 0 /\ long_ma = 0
    /\ pending = <<>>
    /\ seen = NoBar
    /\ fn = "none" /\ args = <<>> /\ ret = <<>>

\* self.calculate_position(capital, price) with self.stop_loss_pct = slp
CallCalculatePosition(capital, price, slp) ==
    /\ fn = "none"
    /\ fn' = "calculate_position"
    /\ args' = [capital |-> capital, price |-> price, stop_loss_pct |-> slp]
    /\ ret' = CalculatePosition(capital, price, risk_percent, slp, max_position)
    /\ UNCHANGED <<stratVars, pending, seen>>

---------------------------------------------------------------------------
(* IndicatorEngine (data_analysis/indicators.py).  A column is a sequence,
   one value per row.  Closes are integers; a computed value is the exact
   fraction num/den (den > 0), the square root of one, or NaN, which is what
   pandas holds where a value is undefined. *)

\* rows of a frame
SeriesLen == 3
\* the largest window
MaxPeriod == 3

Closes == {10, 11, 13}
Periods == 2..MaxPeriod
Series == [1..SeriesLen -> Closes]

NaN == [kind |-> "nan", num |-> 0, den |-> 1]
Frac(n, d) == [kind |-> "num", num |-> n, den |-> d]

RECURSIVE SumSeq(_)
SumSeq(w) == IF w = <<>> THEN 0 ELSE Head(w) + SumSeq(Tail(w))

\* the rows a rolling window of n rows holds at row t >= n
Window(column, t, n) == SubSeq(column, t - n + 1, t)

\* column.rolling(window=n).mean() of an integer column: NaN until n rows
RollingMean(column, n) ==
    [t \in 1..Len(column) |->
        IF t < n THEN NaN ELSE Frac(SumSeq(Window(column, t, n)), n)]

\* n^2 times the sum of the squared deviations from the mean of the window
SqDev(w) ==
    LET n == Len(w)
        s == SumSeq(w)
    IN  SumSeq([i \in 1..n |-> (n * w[i] - s) * (n * w[i] - s)])

\* column.rolling(window=n).std(): pandas' default ddof = 1 divides the sum
\* of the squared deviations by n - 1; the value is sqrt(num/den)
RollingStd(column, n) ==
    [t \in 1..Len(column) |->
        IF t < n \/ n - 1 <= 0 THEN NaN
        ELSE [kind |-> "sqrt", num |-> SqDev(Window(column, t, n)),
              den |-> n * n * (n - 1)]]

\* mid + k * sd, NaN when an operand is
Band(mid, k, sd) ==
    IF mid.kind = "nan" \/ sd.kind = "nan" THEN NaN
    ELSE [kind |-> "band", mid |-> mid, k |-> k, std |-> sd]

\* IndicatorEngine.add_boll(df, period, std)
AddBoll(close, period, std) ==
    LET boll_mid == RollingMean(close, period)
        boll_std == RollingStd(close, period)
    IN  [boll_mid |-> boll_mid,
         boll_std |-> boll_std,
         boll_up |-> [t \in 1..Len(close) |-> Band(boll_mid[t], std, boll_std[t])],
         boll_down |-> [t \in 1..Len(close) |-> Band(boll_mid[t], -std, boll_std[t])]]

\* df['close'].diff(): NaN on the first row
Diff(close) ==
    [t \in 1..Len(close) |-> IF t = 1 THEN NaN ELSE Frac(close[t] - close[t - 1], 1)]

\* delta.where(delta > 0, 0): a NaN compares False and is replaced as well
Gains(delta) ==
    [t \in 1..Len(delta) |->
        IF delta[t].kind = "num" /\ delta[t].num > 0 THEN delta[t].num ELSE 0]

\* -delta.where(delta < 0, 0)
Losses(delta) ==
    [t \in 1..Len(delta) |->
        IF delta[t].kind = "num" /\ delta[t].num < 0 THEN -delta[t].num ELSE 0]

\* 100 - (100 / (1 + gain / loss)) for the window sums g, l >= 0 (the window
\* means are g/n and l/n): 0/0 is NaN and stays NaN; g/0 is inf for g > 0,
\* then 100/inf = 0 and the value is 100
RsiValue(g, l) ==
    IF l = 0 THEN (IF g = 0 THEN NaN ELSE Frac(100, 1))
    ELSE Frac(100 * g, g + l)

\* IndicatorEngine.add_rsi(df, [period]): the column rsi{period}
AddRsi(close, period) ==
    LET delta == Diff(close)
        gain == Gains(delta)
        loss == Losses(delta)
    IN  [t \in 1..Len(close) |->
            IF t < period THEN NaN
            ELSE RsiValue(SumSeq(Window(gain, t, period)),
                          SumSeq(Window(loss, t, period)))]

\* the values a moving-average column holds: NaN during the warm-up
MAColumnValues == {NaN} \cup {Frac(v, 1) : v \in MAValues}
MAColumns == [1..SeriesLen -> MAColumnValues]

\* a - b of two values, NaN when an operand is
Sub(a, b) ==
    IF a.kind = "nan" \/ b.kind = "nan" THEN NaN
    ELSE Frac(a.num * b.den - b.num * a.den, a.den * b.den)

\* column.shift(1)
Shift(column) == [t \in 1..Len(column) |-> IF t = 1 THEN NaN ELSE column[t - 1]]

\* comparisons with 0; every comparison with NaN is False
Gt0(x) == x.kind = "num" /\ x.num > 0
Le0(x) == x.kind = "num" /\ x.num <= 0
Lt0(x) == x.kind = "num" /\ x.num < 0
Ge0(x) == x.kind = "num" /\ x.num >= 0

\* IndicatorEngine.detect_ma_cross: cross_signal starts at 0, the golden
\* rows are set to 1, then the death rows to -1
DetectMaCross(ma_fast, ma_slow) ==
    LET ma_diff_col == [t \in 1..Len(ma_fast) |-> Sub(ma_fast[t], ma_slow[t])]
        prev == Shift(ma_diff_col)
        golden == [t \in 1..Len(ma_fast) |->
                      IF Gt0(ma_diff_col[t]) /\ Le0(prev[t]) THEN 1 ELSE 0]
    IN  [ma_diff |-> ma_diff_col,
         cross_signal |-> [t \in 1..Len(ma_fast) |->
                              IF Lt0(ma_diff_col[t]) /\ Ge0(prev[t]) THEN -1
                              ELSE golden[t]]]

CallAddBoll(close, period, std) ==
    /\ fn = "none"
    /\ fn' = "add_boll"
    /\ args' = [close |-> close, period |-> period, std |-> std]
    /\ ret' = AddBoll(close, period, std)
    /\ UNCHANGED <<stratVars, pending, seen>>

CallAddRsi(close, period) ==
    /\ fn = "none"
    /\ fn' = "add_rsi"
    /\ args' = [close |-> close, period |-> period]
    /\ ret' = AddRsi(close, period)
    /\ UNCHANGED <<stratVars, pending, seen>>

CallDetectMaCross(ma_fast, ma_slow) ==
    /\ fn = "none"
    /\ fn' = "detect_ma_cross"
    /\ args' = [ma_fast |-> ma_fast, ma_slow |-> ma_slow]
    /\ ret' = DetectMaCross(ma_fast, ma_slow)
    /\ UNCHANGED <<stratVars, pending, seen>>

---------------------------------------------------------------------------
(* DataLoader (utils/data_loader.py).  What an adapter's source does when it
   is asked is the environment's choice: it has rows, it has none, or the
   call into it raises an Exception. *)

priority == <<"vnpy", "miniqmt", "akshare">>
Sources == {"vnpy", "miniqmt", "akshare"}
Outcomes == {"data", "empty", "exception"}

\* pd.DataFrame(), and the frame of rows that source delivered
EmptyFrame == [empty |-> TRUE, source |-> "none"]
DataFrame(source) == [empty |-> FALSE, source |-> source]

\* mutant: the adapter lets the exception of its source escape
AdapterGetDailyBars_Raises(source, available, outcome) ==
    IF ~available THEN [df |-> EmptyFrame, raised |-> "none"]
    ELSE IF outcome = "exception" THEN [df |-> EmptyFrame, raised |-> "Exception"]
    ELSE IF outcome = "data" THEN [df |-> DataFrame(source), raised |-> "none"]
    ELSE [df |-> EmptyFrame, raised |-> "none"]

\* VnpyAdapter / MiniQMTAdapter / AKShareAdapter.get_daily_bars: empty when
\* not available; the whole query sits in try / except Exception
AdapterGetDailyBars(source, available, outcome) ==
    IF ~available THEN [df |-> EmptyFrame, raised |-> "none"]
    ELSE IF outcome = "exception" THEN [df |-> EmptyFrame, raised |-> "none"]
    ELSE IF outcome = "data" THEN [df |-> DataFrame(source), raised |-> "none"]
    ELSE [df |-> EmptyFrame, raised |-> "none"]

RECURSIVE LoaderFrom(_, _, _, _)
\* the loop of DataLoader.get_daily_bars from the i-th source of priority on;
\* queried is the sources asked so far
LoaderFrom(i, available, outcome, queried) ==
    IF i > Len(priority)
    THEN [df |-> EmptyFrame, raised |-> "none", queried |-> queried]
    ELSE LET source == priority[i]
         IN  IF ~available[source]
             THEN LoaderFrom(i + 1, available, outcome, queried)
             ELSE LET r == AdapterGetDailyBars(source, available[source], outcome[source])
                  IN  IF r.raised # "none"
                      THEN [df |-> EmptyFrame, raised |-> r.raised,
                            queried |-> Append(queried, source)]
                      ELSE IF ~r.df.empty
                      THEN [df |-> r.df, raised |-> "none",
                            queried |-> Append(queried, source)]
                      ELSE LoaderFrom(i + 1, available, outcome,
                                      Append(queried, source))

\* DataLoader.get_daily_bars
GetDailyBars(available, outcome) == LoaderFrom(1, available, outcome, <<>>)

CallGetDailyBars(available, outcome) ==
    /\ fn = "none"
    /\ fn' = "get_daily_bars"
    /\ args' = [available |-> available, outcome |-> outcome]
    /\ ret' = GetDailyBars(available, outcome)
    /\ UNCHANGED <<stratVars, pending, seen>>

NextFn ==
    \/ \E capital \in Capitals, price \in CallPrices, slp \in StopLossPcts :
          CallCalculatePosition(capital, price, slp)
    \/ \E close \in Series, period \in Periods : CallAddBoll(close, period, 2)
    \/ \E close \in Series, period \in Periods : CallAddRsi(close, period)
    \/ \E ma_fast \in MAColumns, ma_slow \in MAColumns :
          CallDetectMaCross(ma_fast, ma_slow)
    \/ \E available \in [Sources -> BOOLEAN], outcome \in [Sources -> Outcomes] :
          CallGetDailyBars(available, outcome)

SpecFn == InitFn /\ [][NextFn]_vars

---------------------------------------------------------------------------
(* Properties *)

\* the orders risk_management sent on the last bar
RiskOrders == SelectSeq(orders, LAMBDA o : o.by = "risk")

\* the order type, price and volume of a sequence of orders
Sent(os) == [i \in 1..Len(os) |-> <<os[i].type, os[i].price, os[i].volume>>]

\* after on_bar, current_price is the bar's close and highest_price the
\* value risk_management evaluated
LongLossReached == (entry_price - current_price) * 100 >= stop_loss_pct * entry_price
DrawdownReached == (highest_price - current_price) * 100 >= take_profit_pct * highest_price
ShortLossReached == (current_price - entry_price) * 100 >= stop_loss_pct * entry_price

\* C1: for a LONG position with entry_price E > 0, a bar whose close C has
\* (E - C)/E*100 >= stop_loss_pct makes risk_management send one sell at the
\* close for abs(pos); a bar where neither that nor the trailing condition
\* holds makes it send nothing.
C1_LongStopLossExit ==
    (last = "bar" /\ pos > 0 /\ entry_price > 0) =>
        /\ LongLossReached => Sent(RiskOrders) = << <<"sell", current_price, Abs(pos)>> >>
        /\ (~LongLossReached /\ ~DrawdownReached) => RiskOrders = <<>>

\* the spec's scenario: entry 100, stop_loss_pct 5, close 94
C1_Witness ==
    /\ last = "bar" /\ pos > 0 /\ entry_price = 100 /\ current_price = 94
    /\ Len(RiskOrders) = 1

\* C2: when the stop-loss and the trailing take-profit condition hold on the
\* same bar of a LONG position, risk_management sends exactly one close order
\* for abs(pos), logged as the stop-loss, and none logged as trailing.
C2_StopLossFirst ==
    (last = "bar" /\ pos > 0 /\ entry_price > 0 /\ LongLossReached /\ DrawdownReached) =>
        /\ Len(RiskOrders) = 1
        /\ RiskOrders[1].log = "stop_loss"
        /\ RiskOrders[1].type = "sell"
        /\ RiskOrders[1].volume = Abs(pos)

C2_Witness ==
    /\ last = "bar" /\ pos > 0 /\ entry_price > 0
    /\ LongLossReached /\ DrawdownReached
    /\ Len(RiskOrders) = 1

\* C4: for a SHORT position with entry_price E > 0, a bar whose close C has
\* (C - E)/E*100 >= stop_loss_pct makes risk_management send one cover at the
\* close for abs(pos); it never sends a sell for a SHORT position.
C4_ShortStopLossExit ==
    (last = "bar" /\ pos < 0) =>
        /\ (entry_price > 0 /\ ShortLossReached) =>
               Sent(RiskOrders) = << <<"cover", current_price, Abs(pos)>> >>
        /\ \A i \in 1..Len(RiskOrders) : RiskOrders[i].type # "sell"

C4_Witness ==
    /\ last = "bar" /\ pos < 0 /\ entry_price > 0 /\ ShortLossReached
    /\ Len(RiskOrders) = 1


\* C3: for a LONG position whose stop-loss did not trigger on the bar, a
\* close with (highest - close)/highest*100 >= take_profit_pct, highest
\* being the value updated with the bar's high, makes risk_management send
\* a sell for abs(pos), also when the close is above entry_price.
C3_TrailingExit ==
    (/\ last = "bar" /\ pos > 0 /\ highest_price > 0
     /\ \A i \in 1..Len(RiskOrders) : RiskOrders[i].log # "stop_loss"
     /\ DrawdownReached) =>
        Sent(RiskOrders) = << <<"sell", current_price, Abs(pos)>> >>

\* C5: for a SHORT position whose stop-loss did not trigger on the bar, a
\* close that rebounded from lowest_price by at least take_profit_pct percent
\* makes risk_management send a cover for abs(pos).
C5_ShortTrailingExit ==
    (/\ last = "bar" /\ pos < 0 /\ entry_price > 0 /\ lowest_price > 0
     /\ ~ShortLossReached
     /\ (current_price - lowest_price) * 100 >= take_profit_pct * lowest_price) =>
        Sent(RiskOrders) = << <<"cover", current_price, Abs(pos)>> >>

\* C6: while a position stays open, no callback (tick, bar, fill) lowers
\* highest_price of a LONG position or raises lowest_price of a SHORT one.
C6_ExtremesMonotonic ==
    [][/\ (pos > 0 /\ pos' > 0) => highest_price' >= highest_price
       /\ (pos < 0 /\ pos' < 0) => lowest_price' <= lowest_price]_vars

\* C7: after the close fill that returns the position to FLAT, entry_price
\* and both extremes are cleared (back to the values of a strategy that
\* never held a position).
C7_ClearedWhenFlat ==
    (last = "close" /\ pos = 0) =>
        /\ entry_price = 0
        /\ highest_price = 0
        /\ lowest_price = Inf

\* C8: while the position is LONG, highest_price >= entry_price >= lowest_price.
C8_LongOrdering ==
    pos > 0 => (highest_price >= entry_price /\ entry_price >= lowest_price)

\* C9: on every bar risk_management sends at most one order, a sell only
\* when pos > 0 and a cover only when pos < 0, for exactly abs(pos); when
\* pos = 0 it sends nothing and leaves pos, entry_price and the extremes as
\* they were.
C9_OnlyCloses ==
    [][last' = "bar" =>
        /\ Len(RiskOrders') <= 1
        /\ \A i \in 1..Len(RiskOrders') :
              /\ RiskOrders'[i].type \in {"sell", "cover"}
              /\ RiskOrders'[i].type = "sell" => pos > 0
              /\ RiskOrders'[i].type = "cover" => pos < 0
              /\ RiskOrders'[i].volume = Abs(pos)
        /\ pos = 0 =>
              /\ RiskOrders' = <<>>
              /\ UNCHANGED <<pos, entry_price, highest_price, lowest_price>>]_vars

\* risk_management closed a SHORT position on the last bar
C9_Witness ==
    /\ last = "bar" /\ pos < 0
    /\ Len(RiskOrders) = 1 /\ RiskOrders[1].type = "cover"

\* C10: on a bar on which risk_management sends a forced exit, that exit is
\* the only order of the bar.
C10_ExitIsOnlyOrder ==
    (last = "bar" /\ RiskOrders # <<>>) => Len(orders) = 1

\* C15: for capital >= 0, price > 0 and stop_loss_pct > 0, calculate_position
\* returns min(floor((capital * risk_percent/100) / (price * stop_loss_pct/100)),
\* max_position) and changes no field of the strategy.
C15_PositionSize ==
    [][(/\ fn = "none" /\ fn' = "calculate_position"
        /\ args'.capital >= 0 /\ args'.price > 0 /\ args'.stop_loss_pct > 0) =>
        /\ ret'.raised = "none"
        /\ ret'.value = Min((args'.capital * risk_percent)
                               \div (args'.price * args'.stop_loss_pct), max_position)
        /\ UNCHANGED stratVars]_vars

\* C16: calculate_position fails, and returns no size, whenever price <= 0 or
\* stop_loss_pct <= 0.
C16_InvalidInputFails ==
    (/\ fn = "calculate_position"
     /\ (args.price <= 0 \/ args.stop_loss_pct <= 0)) =>
        ret.raised # "none"

\* C18: in add_boll, for every window of `period` closes with mean m,
\* boll_std^2 = (sum of (close_i - m)^2) / period, the population standard
\* deviation, and boll_up = boll_mid + k*boll_std, boll_down = boll_mid -
\* k*boll_std.
C18_PopulationStd ==
    fn = "add_boll" =>
        \A t \in args.period..Len(args.close) :
            LET n == args.period
                w == Window(args.close, t, n)
                \* n^2 * sum of (close_i - m)^2
                dev == SumSeq([i \in 1..n |->
                          (n * w[i] - SumSeq(w)) * (n * w[i] - SumSeq(w))])
            IN  /\ ret.boll_std[t].kind = "sqrt"
                /\ ret.boll_std[t].num * (n * n * n) = dev * ret.boll_std[t].den
                /\ ret.boll_up[t] = [kind |-> "band", mid |-> ret.boll_mid[t],
                                     k |-> args.std, std |-> ret.boll_std[t]]
                /\ ret.boll_down[t] = [kind |-> "band", mid |-> ret.boll_mid[t],
                                       k |-> -args.std, std |-> ret.boll_std[t]]

\* C19: for every RSI period and every row with a full window, when the
\* average loss over the window is 0 the RSI is defined and equal to 100,
\* also when every close of the window is equal.
C19_NoLossIs100 ==
    fn = "add_rsi" =>
        \A t \in args.period..Len(args.close) :
            LET \* the rows of the window that closed below the row before
                falls == {i \in (t - args.period + 1)..t :
                             i > 1 /\ args.close[i] < args.close[i - 1]}
            IN  falls = {} =>
                    /\ ret[t].kind = "num"
                    /\ ret[t].num = 100 * ret[t].den

\* C14, IndicatorEngine.detect_ma_cross: cross_signal is 1 at row t exactly
\* when both differences are defined, A_t - B_t > 0 and A_{t-1} - B_{t-1} <= 0,
\* -1 exactly when both are defined, A_t - B_t < 0 and A_{t-1} - B_{t-1} >= 0,
\* and 0 when the current or the previous difference is undefined.
C14_DetectMaCross ==
    fn = "detect_ma_cross" =>
        \A t \in 1..SeriesLen :
            LET defined == /\ t > 1
                           /\ \A i \in {t - 1, t} :
                                 /\ args.ma_fast[i].kind = "num"
                                 /\ args.ma_slow[i].kind = "num"
                d(i) == args.ma_fast[i].num - args.ma_slow[i].num
            IN  /\ ret.cross_signal[t] = 1 <=> (defined /\ d(t) > 0 /\ d(t - 1) <= 0)
                /\ ret.cross_signal[t] = -1 <=> (defined /\ d(t) < 0 /\ d(t - 1) >= 0)
                /\ ret.cross_signal[t] \in {-1, 0, 1}

\* C20: DataLoader.get_daily_bars asks the adapters in the order vnpy,
\* miniqmt, akshare, skips those not available, returns the rows of the first
\* available adapter that has rows, asks a later adapter only after every
\* earlier one was unavailable or came back empty, returns an empty frame
\* only when no available adapter had rows; an exception inside an adapter
\* counts as empty and does not propagate.
C20_FirstAvailableSource ==
    fn = "get_daily_bars" =>
        LET order == <<"vnpy", "miniqmt", "akshare">>
            has(i) == args.available[order[i]] /\ args.outcome[order[i]] = "data"
            hits == {i \in 1..3 : has(i)}
            first == IF hits = {} THEN 4
                     ELSE CHOOSE i \in hits : \A j \in hits : i <= j
            asked == SelectSeq(order, LAMBDA src :
                        /\ args.available[src]
                        /\ \E i \in 1..3 : order[i] = src /\ i <= first)
        IN  /\ ret.raised = "none"
            /\ ret.queried = asked
            /\ ret.df = IF hits = {} THEN [empty |-> TRUE, source |-> "none"]
                        ELSE [empty |-> FALSE, source |-> order[first]]

\* vnpy is not installed, the call into miniqmt raises, akshare has rows
C20_Witness ==
    /\ fn = "get_daily_bars"
    /\ ~args.available["vnpy"]
    /\ args.available["miniqmt"] /\ args.outcome["miniqmt"] = "exception"
    /\ args.available["akshare"] /\ args.outcome["akshare"] = "data"
    /\ ret.queried = <<"miniqmt", "akshare">>
    /\ ret.df.source = "akshare"

\* the orders trading_logic sent on the last bar
LogicOrders == SelectSeq(orders, LAMBDA o : o.by = "logic")

\* the last bar passed the volume filter and the ArrayManager was inited:
\* trading_logic evaluated the averages on it
Evaluated == seen.volume >= volume_threshold /\ seen.am.inited

\* C11: on a bar with no forced exit where a golden cross is detected, a FLAT
\* position gets one buy, a SHORT position a cover for abs(pos) and then the
\* buy, a LONG position nothing; the buy's size is calculate_position(capital,
\* price), whatever the capital.
C11_GoldenCrossOrders ==
    [][(/\ last' = "bar" /\ raised' = "none" /\ RiskOrders' = <<>>
        /\ Evaluated'
        /\ ma_diff' > 0 /\ last_ma_diff' <= 0) =>
        \A capital \in Capitals :
            LET size == CalculatePosition(capital, current_price', risk_percent,
                                          stop_loss_pct, max_position).value
            IN  /\ pos = 0 =>
                     Sent(LogicOrders') = << <<"buy", current_price', size>> >>
                /\ pos < 0 =>
                     Sent(LogicOrders') = << <<"cover", current_price', Abs(pos)>>,
                                             <<"buy", current_price', size>> >>
                /\ pos > 0 => LogicOrders' = <<>>]_vars

\* C13: a bar whose volume is below volume_threshold gets no opening order,
\* but fast_ma, slow_ma, ma_diff and last_ma_diff are updated as on a normal
\* bar, and the death-cross sell of an open LONG position is still sent.
C13_LowVolumeBar ==
    [][(/\ last' = "bar" /\ raised' = "none"
        /\ seen'.volume < volume_threshold /\ seen'.am.inited) =>
        /\ \A i \in 1..Len(LogicOrders') : LogicOrders'[i].type \notin {"buy", "short"}
        /\ fast_ma' = seen'.am.fast
        /\ slow_ma' = seen'.am.slow
        /\ ma_diff' = seen'.am.fast - seen'.am.slow
        /\ last_ma_diff' = ma_diff
        /\ (pos > 0 /\ ma_diff' < 0 /\ last_ma_diff' >= 0) =>
              \E i \in 1..Len(LogicOrders') :
                  LogicOrders'[i].type = "sell" /\ LogicOrders'[i].volume = Abs(pos)]_vars

\* C14, DualMAStrategy: on the first evaluated bar, which has no previous
\* difference, no cross event fires; on a later evaluated bar the golden
\* cross fires exactly when ma_diff > 0 and the previous ma_diff <= 0, the
\* death cross exactly when ma_diff < 0 and the previous ma_diff >= 0.  (The
\* golden cross shows as the buy of a position that is not LONG, the death
\* cross as the sell of a LONG one; the averages are positive, so fast_ma = 0
\* tells that no bar was evaluated yet.)
C14_CrossEvents ==
    [][(last' = "bar" /\ raised' = "none" /\ Evaluated') =>
        LET first == fast_ma = 0 /\ slow_ma = 0
            bought == \E i \in 1..Len(LogicOrders') : LogicOrders'[i].type = "buy"
            sold == \E i \in 1..Len(LogicOrders') : LogicOrders'[i].type = "sell"
        IN  /\ first => LogicOrders' = <<>>
            /\ (~first /\ pos <= 0) =>
                  (bought <=> (ma_diff' > 0 /\ ma_diff <= 0))
            /\ (~first /\ pos > 0) =>
                  (sold <=> (ma_diff' < 0 /\ ma_diff >= 0))]_vars

\* C17: a bar whose timestamp is not greater than that of the bar processed
\* before it is rejected with an error, and current_price, the extremes and
\* the cross state stay as they were.
C17_StaleBarRejected ==
    [][(/\ last' = "bar" /\ seen.datetime > 0
        /\ seen'.datetime <= seen.datetime) =>
        /\ raised' # "none"
        /\ UNCHANGED <<current_price, highest_price, lowest_price,
                       fast_ma, slow_ma, ma_diff, last_ma_diff>>]_vars

\* C12: no strategy opens a short position: DualMAStrategy and
\* TripleMAStrategy send no short order; on a death cross or a bearish
\* alignment they send only a sell of abs(pos) when pos > 0 and nothing when
\* pos = 0; pos never becomes negative through the fills of the strategy's
\* own orders.
C12_NeverShort ==
    /\ \A i \in 1..Len(orders) : orders[i].type # "short"
    /\ \A i \in 1..Len(pending) : pending[i].type # "short"
    /\ last = "bar" =>
          \A i \in 1..Len(LogicOrders) :
              LogicOrders[i].type = "sell" =>
                  (pos > 0 /\ LogicOrders[i].volume = Abs(pos))
    /\ pos >= 0

\* C22: in every reachable state with pos # 0, entry_price # 0 and, for
\* pos > 0, highest_price # 0, and no bar ends in a division by zero; also
\* after a partial close fill that leaves pos # 0.
C22_NoDivisionByZero ==
    /\ pos # 0 => (entry_price # 0 /\ (pos > 0 => highest_price # 0))
    /\ last = "bar" => raised # "ZeroDivisionError"

\* C21: the CTA DualMAStrategy sends every buy on a bar where ma_diff > 0
\* and ma_diff was <= 0 on the bar evaluated before, every sell on a bar where
\* ma_diff < 0 and ma_diff was >= 0 on the bar evaluated before; it sends no
\* buy on a bar when the fast average was above the slow one already.  (The
\* ma_diff of a strategy that evaluated no bar yet is its initial 0.)
C21_TradesOnCrossOnly ==
    [][last' = "bar" =>
        \A i \in 1..Len(orders') :
            /\ orders'[i].type = "buy" => (ma_diff' > 0 /\ ma_diff <= 0)
            /\ orders'[i].type = "sell" => (ma_diff' < 0 /\ ma_diff >= 0)]_vars

\* the volume of the orders of the given types the host holds unfilled
Outstanding(types) ==
    LET held == SelectSeq(pending, LAMBDA o : o.type \in types)
    IN  SumSeq([i \in 1..Len(held) |-> held[i].volume])

\* C23: whenever on_bar has sent its orders, with fills arriving any number
\* of bars later, the close orders (sell, cover) issued and not yet filled
\* sum to at most abs(pos), and the opening buys outstanding while pos = 0
\* to at most one entry size.
C23_NoOverCommit ==
    last = "bar" =>
        /\ Outstanding({"sell", "cover"}) <= Abs(pos)
        /\ pos = 0 => Outstanding({"buy"}) <= BuySize

====
